---- MODULE Spec2Model ----
(***************************************************************************)
(* Model of the nrs_monitor Terraform resource (pkg/provider/provider.go)  *)
(* and of the Synthetics client it drives.  One monitor is reconciled      *)
(* against one remote service.  The remote service is the environment: it  *)
(* keeps what it is sent, and every request may also be answered by a      *)
(* fault.  Each handler of the resource is one action; the client calls a  *)
(* handler makes are operators that return the call's result.              *)
(***************************************************************************)
EXTENDS Integers, Sequences, FiniteSets, TLC

VARIABLES
    st,       \* resource state kept for the monitor (schema.ResourceData)
    srv,      \* what the remote service holds for the monitor the state names
    written,  \* script text last sent for it through UpdateMonitorScript
    created,  \* the last CreateMonitor that succeeded: its spec and Location
    deleted,  \* the resource data of the monitor NRSMonitorDelete has removed
    last      \* record of the last handler run: inputs, calls, payloads, result

vars == <<st, srv, written, created, deleted, last>>

----------------------------------------------------------------------------
(* Bounds and value domains *)

\* Script texts are 1..MaxScripts; 0 is the empty string.
MaxScripts == 1

NoScript == 0
Scripts == 1..MaxScripts

\* The literal the monitorURL pattern anchors on.  A Location header is a
\* sequence of pieces; BASE is this literal taken as one piece.
BASE == "https://synthetics.newrelic.com/synthetics/api/v3/monitors/"

\* The id the remote service assigns.
ServerId == <<"abc123">>
NoId == <<>>

\* Location headers a 201 response may carry: none or empty, the literal with
\* nothing after it, another URL shape, the well-formed one, a well-formed one
\* naming another id, and one with a further path segment after the id.
Locations ==
    { <<>>,
      <<BASE>>,
      <<"https://example.com/monitors/", "abc123">>,
      <<BASE, "abc123">>,
      <<BASE, "zzz999">>,
      <<BASE, "abc123", "/", "extra">> }

\* How one request is answered: by the service ("ok": the status the service
\* gives for what it holds), by an error status, by a success status with a
\* body that does not decode, not at all (transport error), or by the service
\* after the monitor has been deleted outside this resource ("gone").
Answers == {"ok", "500", "garbled", "neterr"}
AnswersNoBody == {"ok", "500"}
Gone == {"gone"}

Nil == <<>>

\* errors.Wrap / errors.Wrapf: the message in front of the cause.
Wrap(err, msg) == <<msg>> \o err

\* util.StrPtr / util.BoolPtr and the nil pointer of an optional field.
Ptr(v) == [set |-> TRUE, val |-> v]
NilStr == [set |-> FALSE, val |-> ""]
NilBool == [set |-> FALSE, val |-> FALSE]

\* Required fields of a configuration.
Required ==
    { [name |-> "home", type |-> "SIMPLE", frequency |-> 5,
       uri |-> "https://example.com", locations |-> <<"US_EAST_1">>,
       status |-> "ENABLED", sla_threshold |-> 7],
      [name |-> "home", type |-> "SIMPLE", frequency |-> 5,
       uri |-> "https://example.com", locations |-> <<"US_EAST_1">>,
       status |-> "ENABLED", sla_threshold |-> 9],
      [name |-> "alt", type |-> "SCRIPT_API", frequency |-> 10,
       uri |-> "https://example.org", locations |-> <<"EU_WEST_1", "US_EAST_1">>,
       status |-> "DISABLED", sla_threshold |-> 9] }

\* Optional fields of a configuration: each unset, set to its zero value, or
\* set to a non-zero value.
Optionals ==
    { [validation_string |-> NilStr, verify_ssl |-> NilBool,
       bypass_head_request |-> NilBool, treat_redirect_as_failure |-> NilBool],
      [validation_string |-> Ptr(""), verify_ssl |-> Ptr(FALSE),
       bypass_head_request |-> Ptr(FALSE), treat_redirect_as_failure |-> Ptr(FALSE)],
      [validation_string |-> Ptr("ok"), verify_ssl |-> Ptr(TRUE),
       bypass_head_request |-> Ptr(TRUE), treat_redirect_as_failure |-> Ptr(TRUE)],
      [validation_string |-> Ptr("ok"), verify_ssl |-> Ptr(FALSE),
       bypass_head_request |-> NilBool, treat_redirect_as_failure |-> Ptr(TRUE)] }

OptionalKeys ==
    {"validation_string", "verify_ssl", "bypass_head_request",
     "treat_redirect_as_failure"}
BoolKeys == {"verify_ssl", "bypass_head_request", "treat_redirect_as_failure"}
RequiredKeys ==
    {"name", "type", "frequency", "uri", "locations", "status", "sla_threshold"}

\* Script part of a configuration: the script text (0: none) and the private
\* locations to run it from.
NoScriptPart == [script |-> NoScript, script_locations |-> <<>>]
ScriptParts ==
    { [script |-> 1, script_locations |-> <<[name |-> "private-1", hmac |-> "secret"]>>] }
    \cup { [script |-> s, script_locations |-> <<>>] : s \in Scripts }

\* Configurations (the desired state handed to a handler): the plain required
\* fields with each setting of the optional ones, the other required fields
\* with no optional one, and each script on the plain configuration.
Plain == CHOOSE r \in Required : r.sla_threshold = 7
Unset == CHOOSE o \in Optionals : \A k \in OptionalKeys : ~o[k].set
Configs ==
    { [req |-> Plain, opt |-> o, scr |-> NoScriptPart] : o \in Optionals }
    \cup { [req |-> r, opt |-> Unset, scr |-> NoScriptPart] : r \in Required }
    \cup { [req |-> Plain, opt |-> Unset, scr |-> s] : s \in ScriptParts }

----------------------------------------------------------------------------
(* The remote service *)

NoMonitor ==
    [id |-> NoId, name |-> "", type |-> "", frequency |-> 0, uri |-> "",
     locations |-> <<>>, status |-> "", slaThreshold |-> 0,
     validationString |-> NilStr, verifySSL |-> NilBool,
     bypassHeadRequest |-> NilBool, treatRedirectAsFailure |-> NilBool]

NoServer == [present |-> FALSE, mon |-> NoMonitor]

\* The service holds the monitor asked for.
Holds(server, id) == server.present /\ server.mon.id = id

\* The service at the time it answers a request.
Serve(server, ans) == IF ans = "gone" THEN NoServer ELSE server

\* POST /monitors: the service keeps the body it was sent under a new id.
ServerCreate(server, body) ==
    [present |-> TRUE,
     mon |-> [id |-> ServerId, name |-> body.name, type |-> body.type,
              frequency |-> body.frequency, uri |-> body.uri,
              locations |-> body.locations, status |-> body.status,
              slaThreshold |-> body.slaThreshold,
              validationString |-> body.validationString,
              verifySSL |-> body.verifySSL,
              bypassHeadRequest |-> body.bypassHeadRequest,
              treatRedirectAsFailure |-> body.treatRedirectAsFailure]]

\* An optional field of an update replaces the held one only when it is sent.
Merge(held, sent) == IF sent.set THEN sent ELSE held

\* PUT /monitors/<id>: the required fields are replaced, the type is kept.
ServerUpdate(server, body) ==
    [server EXCEPT
        !.mon.name = body.name,
        !.mon.frequency = body.frequency,
        !.mon.uri = body.uri,
        !.mon.locations = body.locations,
        !.mon.status = body.status,
        !.mon.slaThreshold = body.slaThreshold,
        !.mon.validationString = Merge(@, body.validationString),
        !.mon.verifySSL = Merge(@, body.verifySSL),
        !.mon.bypassHeadRequest = Merge(@, body.bypassHeadRequest),
        !.mon.treatRedirectAsFailure = Merge(@, body.treatRedirectAsFailure)]

----------------------------------------------------------------------------
(* The Synthetics client *)

\* Error values.  Two errors are == in Go only when they are the same value:
\* a package-level error is one value, errors.New makes a new one each time.
ErrMonitorNotFound == <<"synthetics.ErrMonitorNotFound">>
ErrMonitorScriptNotFound == <<"synthetics.ErrMonitorScriptNotFound">>

\* Status of GET /monitors/<id>.
GetStatus(server, id, ans) ==
    IF ans = "500" THEN 500
    ELSE IF Holds(server, id) THEN 200 ELSE 404

\* json.Decode of a GetMonitor body into Monitor.  The optional fields are
\* the pointer fields NRSMonitorRead reads from the Monitor.
DecodeMonitor(body) ==
    [ID |-> body.id, Name |-> body.name, Type |-> body.type,
     Frequency |-> body.frequency, URI |-> body.uri,
     Locations |-> body.locations, Status |-> body.status,
     SLAThreshold |-> body.slaThreshold,
     ValidationString |-> body.validationString,
     VerifySSL |-> body.verifySSL,
     BypassHEADRequest |-> body.bypassHeadRequest,
     TreatRedirectAsFailure |-> body.treatRedirectAsFailure]

NoGoMonitor == DecodeMonitor(NoMonitor)

\* The error GetMonitor returns for a 404.
GetMonitorNotFound == <<"error: could not find monitor">>

GetMonitor(server, id, ans) ==
    IF id = NoId
    THEN [err |-> <<"error: invalid id provided">>, monitor |-> NoGoMonitor,
          status |-> 0, sent |-> FALSE]
    ELSE IF ans = "neterr"
    THEN [err |-> Wrap(<<"transport">>, "error: could not perform GetMonitor request"),
          monitor |-> NoGoMonitor, status |-> 0, sent |-> TRUE]
    ELSE LET status == GetStatus(server, id, ans) IN
         IF status = 404
         THEN [err |-> GetMonitorNotFound, monitor |-> NoGoMonitor,
               status |-> status, sent |-> TRUE]
         ELSE IF status # 200
         THEN [err |-> <<"error: invalid response from GetMonitor">>,
               monitor |-> NoGoMonitor, status |-> status, sent |-> TRUE]
         ELSE IF ans = "garbled"
         THEN [err |-> Wrap(<<"json">>, "error: could not parse GetMonitor JSON response"),
               monitor |-> NoGoMonitor, status |-> status, sent |-> TRUE]
         ELSE [err |-> Nil, monitor |-> DecodeMonitor(server.mon),
               status |-> status, sent |-> TRUE]

\* json.Encode of CreateMonitorArgs.  The optional fields are the pointer
\* fields NRSMonitorCreate fills in.
EncodeCreate(m) ==
    [name |-> m.Name, type |-> m.Type, frequency |-> m.Frequency,
     uri |-> m.URI, locations |-> m.Locations, status |-> m.Status,
     slaThreshold |-> m.SLAThreshold,
     validationString |-> m.ValidationString, verifySSL |-> m.VerifySSL,
     bypassHeadRequest |-> m.BypassHEADRequest,
     treatRedirectAsFailure |-> m.TreatRedirectAsFailure]

\* monitorURL.FindAllStringSubmatch(location, 1): the pattern is the literal,
\* anchored at the start, followed by (.+) up to the end.
Matches(location) == Len(location) >= 2 /\ location[1] = BASE

\* matches[0][1]: all that follows the literal.
ExtractId(location) == Tail(location)

CreateMonitor(server, m, ans, location, getAns) ==
    IF ans = "neterr"
    THEN [err |-> Wrap(<<"transport">>, "error: could not perform CreateMonitor request"),
          monitor |-> NoGoMonitor, srv |-> server, calls |-> <<"POST">>,
          getIds |-> <<>>, status |-> 0]
    ELSE IF ans # "ok"
    THEN [err |-> <<"error: invalid response from CreateMonitor">>,
          monitor |-> NoGoMonitor, srv |-> server, calls |-> <<"POST">>,
          getIds |-> <<>>, status |-> 500]
    ELSE LET after == ServerCreate(server, EncodeCreate(m)) IN
         IF ~Matches(location)
         THEN [err |-> <<"error: could not find an ID for monitor in location header">>,
               monitor |-> NoGoMonitor, srv |-> after, calls |-> <<"POST">>,
               getIds |-> <<>>, status |-> 201]
         ELSE LET id == ExtractId(location)
                  got == GetMonitor(after, id, getAns)
              IN  IF got.err # Nil
                  THEN [err |-> Wrap(got.err, "error: could not get metadata for monitor"),
                        monitor |-> NoGoMonitor, srv |-> after,
                        calls |-> <<"POST", "GET">>, getIds |-> <<id>>,
                        status |-> 201]
                  ELSE [err |-> Nil, monitor |-> got.monitor, srv |-> after,
                        calls |-> <<"POST", "GET">>, getIds |-> <<id>>,
                        status |-> 201]

\* UpdateMonitor: PUT /monitors/<id> with the encoded arguments.
EncodeUpdate(m) ==
    [name |-> m.Name, frequency |-> m.Frequency, uri |-> m.URI,
     locations |-> m.Locations, status |-> m.Status,
     slaThreshold |-> m.SLAThreshold,
     validationString |-> m.ValidationString, verifySSL |-> m.VerifySSL,
     bypassHeadRequest |-> m.BypassHEADRequest,
     treatRedirectAsFailure |-> m.TreatRedirectAsFailure]

UpdateMonitor(server, id, m, ans) ==
    IF ans = "neterr"
    THEN [err |-> <<"error: could not perform UpdateMonitor request">>, srv |-> server]
    ELSE IF ans # "ok"
    THEN [err |-> <<"error: invalid response from UpdateMonitor">>, srv |-> server]
    ELSE IF ~Holds(server, id)
    THEN [err |-> ErrMonitorNotFound, srv |-> server]
    ELSE [err |-> Nil, srv |-> ServerUpdate(server, EncodeUpdate(m))]

\* DeleteMonitor: DELETE /monitors/<id>; any status but success is an error.
DeleteMonitor(server, id, ans) ==
    IF ans = "neterr"
    THEN [err |-> <<"error: could not perform DeleteMonitor request">>,
          srv |-> server, status |-> 0]
    ELSE IF ans = "500"
    THEN [err |-> <<"error: invalid response from DeleteMonitor">>,
          srv |-> server, status |-> 500]
    ELSE IF ~Holds(server, id)
    THEN [err |-> ErrMonitorNotFound, srv |-> server, status |-> 404]
    ELSE [err |-> Nil, srv |-> NoServer, status |-> 204]

\* GetMonitorScript: the script the service holds for the monitor.  The
\* script can be replaced outside this resource, so `held` is whatever the
\* service holds when asked (0: none, answered 404).
GetMonitorScript(id, ans, held) ==
    IF ans = "neterr"
    THEN [err |-> <<"error: could not perform GetMonitorScript request">>, script |-> NoScript]
    ELSE IF ans = "500"
    THEN [err |-> <<"error: invalid response from GetMonitorScript">>, script |-> NoScript]
    ELSE IF held = NoScript
    THEN [err |-> ErrMonitorScriptNotFound, script |-> NoScript]
    ELSE IF ans = "garbled"
    THEN [err |-> <<"error: could not parse GetMonitorScript response">>, script |-> NoScript]
    ELSE [err |-> Nil, script |-> held]

\* UpdateMonitorScript: PUT /monitors/<id>/script.
UpdateMonitorScript(server, id, args, ans) ==
    IF ans = "neterr"
    THEN <<"error: could not perform UpdateMonitorScript request">>
    ELSE IF ans # "ok"
    THEN <<"error: invalid response from UpdateMonitorScript">>
    ELSE IF ~Holds(server, id)
    THEN ErrMonitorNotFound
    ELSE Nil

----------------------------------------------------------------------------
(* The resource: schema and state *)

\* StateFunc of "script": the SHA-256 digest of the script text.
sha256StateFunc(s) == <<"sha256", s>>

EmptyState ==
    [id |-> NoId, name |-> "", type |-> "", frequency |-> 0, uri |-> "",
     locations |-> <<>>, status |-> "", sla_threshold |-> 0,
     validation_string |-> NilStr, verify_ssl |-> NilBool,
     bypass_head_request |-> NilBool, treat_redirect_as_failure |-> NilBool,
     script |-> Nil, script_locations |-> <<>>]

\* What the state holds for "script" when a configuration is applied: the
\* StateFunc of the configured text, nothing when no text is configured.
ScriptState(cfg) ==
    IF cfg.scr.script = NoScript THEN Nil ELSE sha256StateFunc(cfg.scr.script)

\* The state after a handler has applied a configuration without error.
Applied(id, cfg) ==
    [id |-> id, name |-> cfg.req.name, type |-> cfg.req.type,
     frequency |-> cfg.req.frequency, uri |-> cfg.req.uri,
     locations |-> cfg.req.locations, status |-> cfg.req.status,
     sla_threshold |-> cfg.req.sla_threshold,
     validation_string |-> cfg.opt.validation_string,
     verify_ssl |-> cfg.opt.verify_ssl,
     bypass_head_request |-> cfg.opt.bypass_head_request,
     treat_redirect_as_failure |-> cfg.opt.treat_redirect_as_failure,
     script |-> ScriptState(cfg),
     script_locations |-> cfg.scr.script_locations]

\* The zero value and the nil pointer of an optional field's type.
ZeroOf(key) == IF key = "validation_string" THEN "" ELSE FALSE
NilOf(key) == IF key = "validation_string" THEN NilStr ELSE NilBool

\* resourceData.GetOk(key) of an optional field: the value, and whether the
\* key is set to something other than the zero value of its type.
GetOk(cfg, key) ==
    LET f == cfg.opt[key] IN
    [ok |-> f.set /\ f.val # ZeroOf(key),
     val |-> f.val]

\* resourceData.GetOk("script") and resourceData.GetOk("script_locations").
GetOkScript(cfg) == cfg.scr.script # NoScript
GetOkScriptLocations(cfg) == cfg.scr.script_locations # <<>>

\* resourceData.HasChange(key): the value in the state and the configured
\* value differ.  An unset key reads as the zero value of its type.
HasChange(state, cfg, key) ==
    IF key \in OptionalKeys THEN state[key].val # cfg.opt[key].val
    ELSE IF key = "script" THEN state.script # ScriptState(cfg)
    ELSE IF key = "script_locations"
    THEN state.script_locations # cfg.scr.script_locations
    ELSE state[key] # cfg.req[key]

AllKeys == RequiredKeys \cup OptionalKeys \cup {"script", "script_locations"}

Changed(state, cfg) == {k \in AllKeys : HasChange(state, cfg, k)}

\* data.([]map[string]interface{}) on the value of a list attribute: the
\* value is a []interface{}, so the assertion panics.
ScriptLocationsPanic(cfg) == GetOkScriptLocations(cfg)

\* The ScriptLocation arguments built from the configured script locations.
ScriptLocationArgs(cfg) ==
    [i \in 1..Len(cfg.scr.script_locations) |->
        [Name |-> cfg.scr.script_locations[i].name,
         HMAC |-> cfg.scr.script_locations[i].hmac]]

UpdateMonitorScriptArgs(cfg) ==
    [ScriptText |-> cfg.scr.script, ScriptLocations |-> ScriptLocationArgs(cfg)]

NoScriptArgs == [ScriptText |-> NoScript, ScriptLocations |-> <<>>]

\* An optional field of CreateMonitorArgs: a pointer to the value when GetOk
\* reports the key, nil otherwise.
CreateOptional(cfg, key) ==
    IF GetOk(cfg, key).ok THEN Ptr(GetOk(cfg, key).val) ELSE NilOf(key)

\* The CreateMonitorArgs NRSMonitorCreate builds.
CreateArgs(cfg) ==
    [Name |-> cfg.req.name, Type |-> cfg.req.type,
     Frequency |-> cfg.req.frequency, URI |-> cfg.req.uri,
     Locations |-> cfg.req.locations, Status |-> cfg.req.status,
     SLAThreshold |-> cfg.req.sla_threshold,
     ValidationString |-> CreateOptional(cfg, "validation_string"),
     VerifySSL |-> CreateOptional(cfg, "verify_ssl"),
     BypassHEADRequest |-> CreateOptional(cfg, "bypass_head_request"),
     TreatRedirectAsFailure |-> CreateOptional(cfg, "treat_redirect_as_failure")]

\* The validation string of UpdateMonitorArgs: set when the key has changed
\* and its new value is not empty.
UpdateValidationString(state, cfg) ==
    IF HasChange(state, cfg, "validation_string")
       /\ cfg.opt.validation_string.val # ""
    THEN Ptr(cfg.opt.validation_string.val)
    ELSE NilStr

\* A variant of UpdateBool that sets the option only when it has changed to
\* true, the way a GetOk test would.
UpdateBoolTrueOnly(state, cfg, key) ==
    IF HasChange(state, cfg, key) /\ cfg.opt[key].val
    THEN Ptr(cfg.opt[key].val) ELSE NilBool

\* A boolean option of UpdateMonitorArgs: set when the key has changed.
UpdateBool(state, cfg, key) ==
    IF HasChange(state, cfg, key) THEN Ptr(cfg.opt[key].val) ELSE NilBool

\* A variant of UpdateArgs that fills a required field only when it has
\* changed and leaves it at its zero value otherwise.
UpdateArgsChangedOnly(state, cfg) ==
    [Name |-> IF HasChange(state, cfg, "name") THEN cfg.req.name ELSE "",
     Frequency |-> IF HasChange(state, cfg, "frequency")
                   THEN cfg.req.frequency ELSE 0,
     URI |-> IF HasChange(state, cfg, "uri") THEN cfg.req.uri ELSE "",
     Locations |-> IF HasChange(state, cfg, "locations")
                   THEN cfg.req.locations ELSE <<>>,
     Status |-> IF HasChange(state, cfg, "status") THEN cfg.req.status ELSE "",
     SLAThreshold |-> IF HasChange(state, cfg, "sla_threshold")
                      THEN cfg.req.sla_threshold ELSE 0,
     ValidationString |-> UpdateValidationString(state, cfg),
     VerifySSL |-> UpdateBool(state, cfg, "verify_ssl"),
     BypassHEADRequest |-> UpdateBool(state, cfg, "bypass_head_request"),
     TreatRedirectAsFailure |-> UpdateBool(state, cfg, "treat_redirect_as_failure")]

\* The UpdateMonitorArgs NRSMonitorUpdate builds.
UpdateArgs(state, cfg) ==
    [Name |-> cfg.req.name, Frequency |-> cfg.req.frequency,
     URI |-> cfg.req.uri, Locations |-> cfg.req.locations,
     Status |-> cfg.req.status, SLAThreshold |-> cfg.req.sla_threshold,
     ValidationString |-> UpdateValidationString(state, cfg),
     VerifySSL |-> UpdateBool(state, cfg, "verify_ssl"),
     BypassHEADRequest |-> UpdateBool(state, cfg, "bypass_head_request"),
     TreatRedirectAsFailure |-> UpdateBool(state, cfg, "treat_redirect_as_failure")]

\* A handler that panics takes the plugin down: nothing it did to the state
\* is kept.
Panic == <<"panic: interface conversion">>

NoArgs == [none |-> TRUE]
NoConfig == [none |-> TRUE]

\* The record of a handler run: its inputs, the client calls it made in
\* order, what it sent, what it was answered and what it returned.
Run(op, cfg, changed, calls) ==
    [op |-> op, cfg |-> cfg, changed |-> changed, err |-> Nil, calls |-> calls,
     callErr |-> Nil, scriptErr |-> Nil, scriptText |-> NoScript,
     getIds |-> <<>>, status |-> 0, location |-> <<>>,
     createArgs |-> NoArgs, updateArgs |-> NoArgs, scriptArgs |-> NoScriptArgs,
     monitor |-> NoGoMonitor, exists |-> FALSE, before |-> EmptyState]

----------------------------------------------------------------------------
(* The handlers *)

\* No CreateMonitor has succeeded, or the monitor it made has since been
\* updated, replaced or deleted.
NotCreated == [cfg |-> NoConfig, location |-> <<>>, intact |-> FALSE]

\* No monitor has been deleted since the resource was last created.  `again`
\* tells that NRSMonitorDelete has run once more for a monitor it had removed.
NotDeleted == [state |-> EmptyState, again |-> FALSE]

Init ==
    /\ st = EmptyState
    /\ srv = NoServer
    /\ written = NoScript
    /\ created = NotCreated
    /\ deleted = NotDeleted
    /\ last = Run("none", NoConfig, {}, <<>>)

\* NRSMonitorCreate, run on a resource that has no id yet.  When the handler
\* returns an error the state holds what the handler itself has set (the id,
\* once SetId has run); when it returns nil the state holds the configuration.
CreateResult(server, cfg, ans, location, getAns, scriptAns) ==
    LET args == CreateArgs(cfg)
        made == CreateMonitor(server, args, ans, location, getAns)
        run == [Run("create", cfg, {}, made.calls) EXCEPT
                   !.createArgs = args, !.getIds = made.getIds,
                   !.location = location, !.monitor = made.monitor,
                   !.callErr = made.err, !.status = made.status]
        out == [state |-> EmptyState, srv |-> made.srv, wrote |-> FALSE, run |-> run]
    IN  IF made.err # Nil
        THEN [out EXCEPT
                 !.run.err = Wrap(made.err, "error: could not create monitor")]
        ELSE IF ~GetOkScript(cfg)
        THEN [out EXCEPT !.state = Applied(made.monitor.ID, cfg)]
        ELSE IF ScriptLocationsPanic(cfg)
        THEN [out EXCEPT !.run.err = Panic]
        ELSE LET scriptArgs == UpdateMonitorScriptArgs(cfg)
                 err == UpdateMonitorScript(made.srv, made.monitor.ID,
                                            scriptArgs, scriptAns)
                 tried == [out EXCEPT !.run.calls = @ \o <<"PUT script">>,
                                      !.run.scriptArgs = scriptArgs,
                                      !.run.scriptErr = err]
             IN  IF err # Nil
                 THEN [tried EXCEPT
                          !.state = [EmptyState EXCEPT !.id = made.monitor.ID],
                          !.run.err = Wrap(err, "error: could not update monitor script")]
                 ELSE [tried EXCEPT !.state = Applied(made.monitor.ID, cfg),
                                    !.wrote = TRUE]

\* A monitor made by a run that recorded no id is out of the resource's reach
\* and is not followed further.
NRSMonitorCreate ==
    /\ st.id = NoId
    /\ \E cfg \in Configs, ans \in AnswersNoBody :
       \E location \in (IF ans = "ok" THEN Locations ELSE {<<>>}) :
       \E getAns \in (IF ans = "ok" /\ Matches(location) THEN Answers ELSE {"ok"}) :
       \E scriptAns \in (IF getAns = "ok" /\ GetOkScript(cfg)
                         THEN AnswersNoBody ELSE {"ok"}) :
       \E r \in {CreateResult(srv, cfg, ans, location, getAns, scriptAns)} :
          /\ st' = r.state
          /\ srv' = IF r.state.id = NoId THEN NoServer ELSE r.srv
          /\ written' = IF r.wrote THEN r.run.scriptArgs.ScriptText ELSE NoScript
          /\ created' = IF r.state.id # NoId
                        THEN [cfg |-> cfg, location |-> location, intact |-> TRUE]
                        ELSE NotCreated
          /\ deleted' = NotDeleted
          /\ last' = r.run

\* A variant of UpdateScriptWanted that updates the script whenever one is
\* configured, as NRSMonitorCreate does.
UpdateScriptConfigured(state, cfg) == GetOkScript(cfg)

\* Whether NRSMonitorUpdate goes on to update the script.
UpdateScriptWanted(state, cfg) == HasChange(state, cfg, "script")

\* NRSMonitorUpdate.
UpdateResult(state, server, cfg, ans, scriptAns) ==
    LET args == UpdateArgs(state, cfg)
        put == UpdateMonitor(server, state.id, args, ans)
        run == [Run("update", cfg, Changed(state, cfg), <<"PUT">>) EXCEPT
                   !.updateArgs = args, !.before = state,
                   !.callErr = put.err]
        out == [state |-> state, srv |-> put.srv, wrote |-> FALSE, run |-> run]
    IN  IF put.err # Nil
        THEN [out EXCEPT
                 !.run.err = Wrap(put.err, "error: could not update monitor")]
        ELSE IF ~UpdateScriptWanted(state, cfg)
        THEN [out EXCEPT !.state = Applied(state.id, cfg)]
        ELSE IF ScriptLocationsPanic(cfg)
        THEN [out EXCEPT !.run.err = Panic]
        ELSE LET scriptArgs == UpdateMonitorScriptArgs(cfg)
                 err == UpdateMonitorScript(put.srv, state.id, scriptArgs, scriptAns)
                 tried == [out EXCEPT !.run.calls = @ \o <<"PUT script">>,
                                      !.run.scriptArgs = scriptArgs,
                                      !.run.scriptErr = err]
             IN  IF err # Nil
                 THEN [tried EXCEPT
                          !.run.err = Wrap(err, "error: could not update monitor script")]
                 ELSE [tried EXCEPT !.state = Applied(state.id, cfg),
                                    !.wrote = TRUE]

\* A change of "type" forces a new resource, so the handler runs only with
\* the type the state holds, and only when some attribute has changed.
NRSMonitorUpdate ==
    /\ st.id # NoId
    /\ \E cfg \in Configs, ans \in AnswersNoBody :
       \E scriptAns \in (IF ans = "ok" /\ HasChange(st, cfg, "script")
                         THEN AnswersNoBody ELSE {"ok"}) :
          /\ cfg.req.type = st.type
          /\ Changed(st, cfg) # {}
          /\ \E r \in {UpdateResult(st, srv, cfg, ans, scriptAns)} :
             /\ st' = r.state
             /\ srv' = r.srv
             /\ written' = IF r.wrote THEN r.run.scriptArgs.ScriptText ELSE written
             /\ created' = NotCreated
             /\ last' = r.run
             /\ UNCHANGED deleted

\* resourceData.Set of an optional attribute from a pointer of the Monitor.
SetOptional(p, key) == IF p.set THEN Ptr(p.val) ELSE NilOf(key)

\* A variant of ReadScriptState that leaves the fingerprint of the state alone
\* when GetMonitorScript returns a script.
ReadScriptStateKeepsWritten(state, scr) ==
    IF scr.err = ErrMonitorScriptNotFound
    THEN [state EXCEPT !.script = Nil, !.script_locations = <<>>]
    ELSE state

\* A variant of ReadScriptState that clears the fingerprint alone when
\* GetMonitorScript reports ErrMonitorScriptNotFound.
ReadScriptStateKeepsLocations(state, scr) ==
    IF scr.err = ErrMonitorScriptNotFound
    THEN [state EXCEPT !.script = Nil]
    ELSE [state EXCEPT !.script = sha256StateFunc(scr.script)]

\* The switch on the error of GetMonitorScript: what the state holds for the
\* script afterwards.  It is reached only with ErrMonitorScriptNotFound or nil.
ReadScriptState(state, scr) ==
    IF scr.err = ErrMonitorScriptNotFound
    THEN [state EXCEPT !.script = Nil, !.script_locations = <<>>]
    ELSE [state EXCEPT !.script = sha256StateFunc(scr.script)]

\* A variant of ReadFields that sets "uri" from the name of the Monitor.
ReadFieldsUriFromName(state, m) ==
    [state EXCEPT
        !.name = m.Name, !.type = m.Type, !.frequency = m.Frequency,
        !.uri = m.Name, !.locations = m.Locations, !.status = m.Status,
        !.sla_threshold = m.SLAThreshold,
        !.validation_string = SetOptional(m.ValidationString, "validation_string"),
        !.verify_ssl = SetOptional(m.VerifySSL, "verify_ssl"),
        !.bypass_head_request =
            SetOptional(m.BypassHEADRequest, "bypass_head_request"),
        !.treat_redirect_as_failure =
            SetOptional(m.TreatRedirectAsFailure, "treat_redirect_as_failure")]

\* The attributes NRSMonitorRead sets from the Monitor it fetched.
ReadFields(state, m) ==
    [state EXCEPT
        !.name = m.Name, !.type = m.Type, !.frequency = m.Frequency,
        !.uri = m.URI, !.locations = m.Locations, !.status = m.Status,
        !.sla_threshold = m.SLAThreshold,
        !.validation_string = SetOptional(m.ValidationString, "validation_string"),
        !.verify_ssl = SetOptional(m.VerifySSL, "verify_ssl"),
        !.bypass_head_request =
            SetOptional(m.BypassHEADRequest, "bypass_head_request"),
        !.treat_redirect_as_failure =
            SetOptional(m.TreatRedirectAsFailure, "treat_redirect_as_failure")]

\* NRSMonitorRead.
ReadResult(state, server, ans, scriptAns, held) ==
    LET got == GetMonitor(Serve(server, ans), state.id, ans)
        run == [Run("read", NoConfig, {}, <<"GET">>) EXCEPT
                   !.getIds = <<state.id>>, !.status = got.status,
                   !.monitor = got.monitor, !.before = state,
                   !.callErr = got.err]
    IN  IF got.err # Nil
        THEN [state |-> state,
              run |-> [run EXCEPT !.err = Wrap(got.err, "error: could not get monitor")]]
        ELSE LET scr == GetMonitorScript(state.id, scriptAns, held)
                 run2 == [run EXCEPT !.calls = @ \o <<"GET script">>,
                                     !.scriptErr = scr.err,
                                     !.scriptText = scr.script]
             IN  IF scr.err # ErrMonitorScriptNotFound /\ scr.err # Nil
                 THEN [state |-> state,
                       run |-> [run2 EXCEPT
                                  !.err = Wrap(scr.err, "error: could not get monitor script")]]
                 ELSE [state |-> ReadFields(ReadScriptState(state, scr), got.monitor),
                       run |-> run2]

NRSMonitorRead ==
    /\ st.id # NoId
    /\ \E ans \in AnswersNoBody \cup Gone :
       \E scriptAns \in (IF ans = "ok" THEN Answers \ {"neterr"} ELSE {"ok"}) :
       \E held \in (IF ans = "ok" /\ scriptAns \in {"ok", "garbled"}
                    THEN {NoScript} \cup Scripts ELSE {NoScript}) :
       \E r \in {ReadResult(st, srv, ans, scriptAns, held)} :
          /\ st' = r.state
          /\ srv' = Serve(srv, ans)
          /\ created' = IF ans = "gone" THEN NotCreated ELSE created
          /\ last' = r.run
          /\ UNCHANGED <<written, deleted>>

\* NRSMonitorExists: the existence it reports and the error it returns.
ExistsResult(state, server, ans) ==
    LET got == GetMonitor(Serve(server, ans), state.id, ans)
        out == [exists |-> FALSE, err |-> Nil, status |-> got.status,
                callErr |-> got.err]
    IN  IF got.err # Nil
        THEN IF got.err = ErrMonitorNotFound
             THEN out
             ELSE [out EXCEPT !.err = Wrap(got.err, "error: could not get monitor")]
        ELSE [out EXCEPT !.exists = TRUE]

\* A resource reported absent without error is dropped from the state.
NRSMonitorExists ==
    /\ st.id # NoId
    /\ \E ans \in Answers \cup Gone :
       \E r \in {ExistsResult(st, srv, ans)} :
          /\ st' = IF ~r.exists /\ r.err = Nil THEN EmptyState ELSE st
          /\ last' = [Run("exists", NoConfig, {}, <<"GET">>) EXCEPT
                         !.err = r.err, !.callErr = r.callErr,
                         !.getIds = <<st.id>>, !.status = r.status,
                         !.exists = r.exists, !.before = st]
          /\ srv' = Serve(srv, ans)
          /\ created' = IF ans = "gone" THEN NotCreated ELSE created
          /\ UNCHANGED <<written, deleted>>

\* A variant of DeleteResult that takes a monitor that is already gone for a
\* successful delete.
DeleteResultIdempotent(state, server, ans) ==
    LET del == DeleteMonitor(Serve(server, ans), state.id, ans) IN
    IF del.err # Nil /\ del.err # ErrMonitorNotFound
    THEN [err |-> Wrap(del.err, "error: could not delete monitor"),
          callErr |-> del.err, srv |-> del.srv, status |-> del.status]
    ELSE [err |-> Nil, callErr |-> del.err, srv |-> del.srv,
          status |-> del.status]

\* NRSMonitorDelete.
DeleteResult(state, server, ans) ==
    LET del == DeleteMonitor(Serve(server, ans), state.id, ans) IN
    IF del.err # Nil
    THEN [err |-> Wrap(del.err, "error: could not delete monitor"),
          callErr |-> del.err, srv |-> del.srv, status |-> del.status]
    ELSE [err |-> Nil, callErr |-> Nil, srv |-> del.srv, status |-> del.status]

\* A deleted resource is dropped from the state.  The handler runs for the
\* resource the state holds, or once more with the resource data of the
\* monitor it has removed.
NRSMonitorDelete ==
    \E d \in {st, deleted.state} :
       /\ d.id # NoId
       /\ \E ans \in AnswersNoBody \cup Gone :
          \E r \in {DeleteResult(d, srv, ans)} :
             /\ st' = IF r.err = Nil THEN EmptyState ELSE st
             /\ srv' = r.srv
             /\ written' = IF r.err = Nil THEN NoScript ELSE written
             /\ created' = NotCreated
             /\ deleted' = IF d.id # st.id
                            THEN [deleted EXCEPT !.again = TRUE]
                            ELSE IF r.err = Nil
                            THEN [state |-> st, again |-> FALSE]
                            ELSE deleted
             /\ last' = [Run("delete", NoConfig, {}, <<"DELETE">>) EXCEPT
                            !.err = r.err, !.callErr = r.callErr,
                            !.getIds = <<d.id>>, !.status = r.status,
                            !.before = d]

Next ==
    \/ NRSMonitorCreate
    \/ NRSMonitorUpdate
    \/ NRSMonitorRead
    \/ NRSMonitorExists
    \/ NRSMonitorDelete

Spec == Init /\ [][Next]_vars

----------------------------------------------------------------------------
(* Properties *)

\* Number of times a client call appears in the calls of a run.
Count(calls, name) == Cardinality({i \in DOMAIN calls : calls[i] = name})

\* The optional argument of CreateMonitorArgs / UpdateMonitorArgs for a key.
OptionalArg(args, key) ==
    IF key = "validation_string" THEN args.ValidationString
    ELSE IF key = "verify_ssl" THEN args.VerifySSL
    ELSE IF key = "bypass_head_request" THEN args.BypassHEADRequest
    ELSE args.TreatRedirectAsFailure

\* The final path segment of a Location header: what follows its last "/"
\* (the literal ends in "/").
LastSlash(location) ==
    LET slashes == {i \in DOMAIN location : location[i] \in {BASE, "/"}}
    IN  CHOOSE i \in slashes : \A j \in slashes : j <= i
FinalSegment(location) ==
    SubSeq(location, LastSlash(location) + 1, Len(location))

\* A Location header of the shape .../monitors/<id>.
MonitorLocation(location) ==
    /\ Len(location) >= 2
    /\ location[1] = BASE
    /\ \A i \in 2..Len(location) : location[i] # "/"

\* C1 (as stated): after any run of create, update and read the "script" of
\* the state is the fingerprint of the script text last written through
\* UpdateMonitorScript, or absent; read takes nothing from the service.
C1_ScriptIsLastWritten ==
    \/ st.script = Nil
    \/ written # NoScript /\ st.script = <<"sha256", written>>

\* C1 (amended): after a read without error the "script" of the state is the
\* fingerprint of the script GetMonitorScript returned in that read, or absent
\* when it reported ErrMonitorScriptNotFound; after a create or update without
\* error it is the fingerprint of the configured script, or absent when none
\* is configured.
C1_ReadFingerprintsReturnedScript ==
    /\ (last.op = "read" /\ last.err = Nil) =>
          st.script = (IF last.scriptErr = ErrMonitorScriptNotFound
                       THEN Nil ELSE <<"sha256", last.scriptText>>)
    /\ (last.op \in {"create", "update"} /\ last.err = Nil) =>
          st.script = (IF last.cfg.scr.script = NoScript
                       THEN Nil ELSE <<"sha256", last.cfg.scr.script>>)

\* A read has put into the state the fingerprint of a script the service
\* returned that is not the script last written.
C1_Witness ==
    /\ last.op = "read" /\ last.err = Nil
    /\ last.scriptText # NoScript /\ last.scriptText # written
    /\ st.script = <<"sha256", last.scriptText>>

\* C2 (as stated): exists reports (false, no error) when the Get is answered
\* 404, (true, no error) when the Get succeeds, and an error for every other
\* failure of the Get.
C2_ExistsClassifiesGet ==
    last.op = "exists" =>
       /\ last.status = 404 => (~last.exists /\ last.err = Nil)
       /\ last.callErr = Nil => (last.exists /\ last.err = Nil)
       /\ (last.callErr # Nil /\ last.status # 404) =>
             (~last.exists /\ last.err # Nil)

\* C3 (as stated): in create, UpdateMonitorScript is called exactly once,
\* after CreateMonitor succeeded and the id was recorded, if and only if the
\* configuration carries a script; if CreateMonitor fails no id is recorded
\* and the script is not updated; if the script update fails the error is not
\* the creation error and the id is kept.
C3_CreateScriptStep ==
    last.op = "create" =>
       LET n == Count(last.calls, "PUT script") IN
       /\ last.callErr = Nil =>
             /\ (n = 1) <=> (last.cfg.scr.script # NoScript)
             /\ n <= 1
             /\ n = 1 => /\ last.calls = <<"POST", "GET", "PUT script">>
                         /\ st.id = last.monitor.ID
                         /\ st.id # NoId
       /\ last.callErr # Nil => (n = 0 /\ st.id = NoId /\ last.err # Nil)
       /\ last.scriptErr # Nil =>
             /\ last.err # Nil
             /\ last.err[1] # "error: could not create monitor"
             /\ st.id = last.monitor.ID
             /\ st.id # NoId

\* C4 (as stated): in update, each optional field is in the payload exactly
\* when it is reported changed, with its new value even when that is false or
\* empty.
C4_OptionalSentIffChanged ==
    last.op = "update" =>
       \A k \in OptionalKeys :
          LET a == OptionalArg(last.updateArgs, k) IN
          /\ a.set <=> (k \in last.changed)
          /\ a.set => a.val = last.cfg.opt[k].val

\* C4 (amended): in update, verifySSL, bypassHeadRequest and
\* treatRedirectAsFailure are in the payload exactly when reported changed,
\* with the new value even when it is false; validationString is in the
\* payload exactly when it is reported changed and its new value is not empty;
\* every unchanged optional field is omitted.
C4_OptionalSentIffChangedNonEmpty ==
    last.op = "update" =>
       /\ \A k \in BoolKeys :
             LET a == OptionalArg(last.updateArgs, k) IN
             /\ a.set <=> (k \in last.changed)
             /\ a.set => a.val = last.cfg.opt[k].val
       /\ LET a == last.updateArgs.ValidationString IN
             /\ a.set <=> ("validation_string" \in last.changed
                           /\ last.cfg.opt.validation_string.val # "")
             /\ a.set => a.val = last.cfg.opt.validation_string.val

\* An update has sent verifySSL = false because it changed, and has left out
\* a validation string that changed to empty.
C4_Witness ==
    /\ last.op = "update"
    /\ "verify_ssl" \in last.changed
    /\ last.updateArgs.VerifySSL = Ptr(FALSE)
    /\ "validation_string" \in last.changed
    /\ ~last.updateArgs.ValidationString.set

\* C5 (as stated): in create, each optional field is in the create arguments
\* exactly when the configuration sets it, with the configured value even
\* when that is false or empty.
C5_OptionalSentIffSet ==
    last.op = "create" =>
       \A k \in OptionalKeys :
          LET a == OptionalArg(last.createArgs, k) IN
          /\ a.set <=> last.cfg.opt[k].set
          /\ a.set => a.val = last.cfg.opt[k].val

\* C6: in update, UpdateMonitorScript is called only after UpdateMonitor has
\* succeeded and only when the script is reported changed; when UpdateMonitor
\* fails, update returns an error and the script is not updated; when the
\* script is unchanged, the script is not updated.
C6_ScriptAfterMetadata ==
    last.op = "update" =>
       LET n == Count(last.calls, "PUT script") IN
       /\ n >= 1 => /\ last.callErr = Nil
                    /\ "script" \in last.changed
                    /\ last.calls = <<"PUT", "PUT script">>
       /\ last.callErr # Nil => (last.err # Nil /\ n = 0)
       /\ "script" \notin last.changed => n = 0

\* An update has updated the script after the monitor.
C6_Witness ==
    /\ last.op = "update"
    /\ last.calls = <<"PUT", "PUT script">>
    /\ "script" \in last.changed

\* The monitor attributes of the state are those of a fetched Monitor.
FieldsFrom(state, m) ==
    /\ state.name = m.Name /\ state.type = m.Type
    /\ state.frequency = m.Frequency /\ state.uri = m.URI
    /\ state.locations = m.Locations /\ state.status = m.Status
    /\ state.sla_threshold = m.SLAThreshold
    /\ state.validation_string = m.ValidationString
    /\ state.verify_ssl = m.VerifySSL
    /\ state.bypass_head_request = m.BypassHEADRequest
    /\ state.treat_redirect_as_failure = m.TreatRedirectAsFailure

\* C7: when GetMonitorScript reports ErrMonitorScriptNotFound, read returns
\* no error, the state holds no script fingerprint and no script locations,
\* and every monitor attribute is that of the fetched Monitor; any other
\* failure of GetMonitorScript makes read return an error.
C7_ScriptNotFoundClears ==
    last.op = "read" =>
       /\ last.scriptErr = ErrMonitorScriptNotFound =>
             /\ last.err = Nil
             /\ st.script = Nil
             /\ st.script_locations = <<>>
             /\ FieldsFrom(st, last.monitor)
       /\ last.scriptErr \notin {Nil, ErrMonitorScriptNotFound} =>
             /\ last.err # Nil
             /\ st = last.before

\* A read answered ErrMonitorScriptNotFound has cleared a fingerprint and
\* script locations the state held.
C7_Witness ==
    /\ last.op = "read"
    /\ last.scriptErr = ErrMonitorScriptNotFound
    /\ last.before.script # Nil
    /\ last.before.script_locations # <<>>
    /\ st.script = Nil
    /\ st.name = last.monitor.Name /\ st.name # ""

\* C8 (as stated): after a 201, CreateMonitor fails without a follow-up Get
\* when the Location header is absent, empty or not of the shape
\* .../monitors/<id>; when an id is extracted it is the final path segment of
\* the Location and exactly one Get, for that id, supplies the monitor.
C8_IdIsFinalSegment ==
    (last.op = "create" /\ last.status = 201) =>
       /\ ~MonitorLocation(last.location) =>
             (last.callErr # Nil /\ last.getIds = <<>>)
       /\ last.getIds # <<>> =>
             /\ last.getIds = <<FinalSegment(last.location)>>
             /\ Count(last.calls, "GET") = 1
       /\ last.callErr = Nil => Count(last.calls, "GET") = 1

\* C9: a read without error of a monitor as the last successful CreateMonitor
\* made it leaves in the state the required fields of the configuration that
\* was created, and the id that ends the Location of the create response.
C9_CreateReadRoundTrip ==
    (last.op = "read" /\ last.err = Nil /\ created.intact) =>
       /\ \A k \in RequiredKeys : st[k] = created.cfg.req[k]
       /\ st.id = FinalSegment(created.location)

\* A read has refreshed the state of a monitor as it was created.
C9_Witness ==
    /\ last.op = "read" /\ last.err = Nil /\ created.intact
    /\ st.name = created.cfg.req.name /\ st.name # ""
    /\ st.id = ServerId

\* C10: the arguments update sends always carry name, frequency, uri,
\* locations, status and slaThreshold of the configuration, changed or not,
\* and never a type.
C10_UpdateSendsRequired ==
    last.op = "update" =>
       LET a == last.updateArgs IN
       /\ a.Name = last.cfg.req.name
       /\ a.Frequency = last.cfg.req.frequency
       /\ a.URI = last.cfg.req.uri
       /\ a.Locations = last.cfg.req.locations
       /\ a.Status = last.cfg.req.status
       /\ a.SLAThreshold = last.cfg.req.sla_threshold
       /\ "Type" \notin DOMAIN a
       /\ "type" \notin DOMAIN EncodeUpdate(a)

\* An update has changed the SLA threshold alone and still sent the name.
C10_Witness ==
    /\ last.op = "update"
    /\ last.changed = {"sla_threshold"}
    /\ last.updateArgs.SLAThreshold = last.cfg.req.sla_threshold
    /\ last.updateArgs.Name = last.before.name

\* C11: delete returns an error whenever DeleteMonitor fails, also when the
\* service answers 404 because the monitor is already gone; a delete run once
\* more for a monitor that a delete has removed returns an error.
C11_DeleteSurfacesNotFound ==
    /\ last.op = "delete" =>
          /\ last.callErr # Nil =>
                last.err = Wrap(last.callErr, "error: could not delete monitor")
          /\ last.status = 404 => last.err # Nil
          /\ last.err = Nil => (last.status = 204 /\ ~srv.present)
    /\ deleted.again => (last.op = "delete" /\ last.err # Nil)

\* A delete has run again for the monitor a delete had removed, was answered
\* 404 and has returned an error.
C11_Witness ==
    /\ last.op = "delete"
    /\ deleted.again
    /\ last.before.id = ServerId
    /\ last.status = 404
    /\ last.err # Nil

====
